---- MODULE Spec2Model ----
(***************************************************************************)
(* Model of src/lambda_function.py: an AWS Lambda handler that answers a   *)
(* question about incident records.  It reads the question from the event  *)
(* body, derives a scan limit from it, scans the DynamoDB table, formats   *)
(* the records into a prompt, invokes a Bedrock model and wraps the reply  *)
(* in an HTTP-like response.                                               *)
(*                                                                         *)
(* Python strings are modelled as sequences of tokens (each token is a run *)
(* of characters), so that concatenation is \o, the empty string is <<>>   *)
(* and "contains" is a statement about sub-sequences.  Python values whose *)
(* type the code tests (str / dict / list / None / int) are tagged records.*)
(***************************************************************************)
EXTENDS Integers, Sequences, FiniteSets, TLC

VARIABLES
    pc,             \* position of lambda_handler (or of a pure function call)
    event,          \* the event passed to lambda_handler
    user_question,  \* body.get("user_question", "")
    limit,          \* determine_incident_limit(user_question)
    scanRequest,    \* arguments of the last dynamodb_client.scan call
    incidents,      \* value returned by get_all_incidents
    prompt,         \* value returned by generate_user_query_prompt
    payload,        \* body of the last bedrock_client.invoke_model call
    response_text,  \* value returned by invoke_bedrock
    result,         \* value returned by lambda_handler
    formatted,      \* value returned by format_incidents_for_prompt
    storeCalls,     \* number of dynamodb_client.scan calls of this request
    modelCalls,     \* number of bedrock_client.invoke_model calls
    scanOutcome,    \* what the dynamodb_client.scan call did
    invokeOutcome,  \* what the bedrock_client.invoke_model call did
    raised          \* the exception raised during this request, if any

vars == <<pc, event, user_question, limit, scanRequest, incidents, prompt,
          payload, response_text, result, formatted, storeCalls, modelCalls,
          scanOutcome, invokeOutcome, raised>>

----------------------------------------------------------------------------
(* Bounds of the model *)

\* longest user question, in tokens, of a request to lambda_handler
MaxQLen == 3
\* longest question, in tokens, given to determine_incident_limit alone
MaxLimLen == 6
\* most records the table holds (a scan returns at most this many)
MaxItems == 2
\* longest record list given to format_incidents_for_prompt alone
MaxRecs == 2

----------------------------------------------------------------------------
(* Generic helpers *)

Min(a, b) == IF a < b THEN a ELSE b

\* all sequences over S of length 0..n
SeqsUpTo(S, n) == UNION {[1..k -> S] : k \in 0..n}

\* the empty Python dict {}
EmptyDict == [k \in {} |-> k]

\* dict.get(key, default)
DictGet(d, key, default) == IF key \in DOMAIN d THEN d[key] ELSE default

\* tagged Python values
PyStr(s)   == [type |-> "str", s |-> s]
PyNone     == [type |-> "NoneType"]
PyInt(n)   == [type |-> "int", n |-> n]
PyDict(d)  == [type |-> "dict", d |-> d]
PyList(xs) == [type |-> "list", items |-> xs]

\* Truthy with `not incidents` never true of a list (variant for C3)
Truthy_ListAlwaysTrue(v) ==
    CASE v.type = "str"      -> v.s # <<>>
      [] v.type = "NoneType" -> FALSE
      [] v.type = "int"      -> v.n # 0
      [] v.type = "dict"     -> DOMAIN v.d # {}
      [] v.type = "list"     -> TRUE

\* Truthy with `not user_question` never true of a string (variant for C4)
Truthy_StrAlwaysTrue(v) ==
    CASE v.type = "str"      -> TRUE
      [] v.type = "NoneType" -> FALSE
      [] v.type = "int"      -> v.n # 0
      [] v.type = "dict"     -> DOMAIN v.d # {}
      [] v.type = "list"     -> v.items # <<>>

\* Python truthiness (the `not x` tests of lambda_handler)
Truthy(v) ==
    CASE v.type = "str"      -> v.s # <<>>
      [] v.type = "NoneType" -> FALSE
      [] v.type = "int"      -> v.n # 0
      [] v.type = "dict"     -> DOMAIN v.d # {}
      [] v.type = "list"     -> v.items # <<>>

----------------------------------------------------------------------------
(* determine_incident_limit: re.search(r"last (\d+) incidents", q, re.I) *)

Digits == {"0", "1"}

\* tokens a question is made of; "last " ends with the blank the pattern
\* needs after it, " incidents" starts with the blank it needs before it
\* "x" is text that is no part of the phrase
Tokens == {"last ", "LAST ", " incidents", " INCIDENTS", "x"} \cup Digits

\* re.IGNORECASE: compare case-folded text
Lower(t) ==
    CASE t = "LAST "      -> "last "
      [] t = " INCIDENTS" -> " incidents"
      [] OTHER            -> t

\* int() of one decimal digit
DigitVal(d) == CASE d = "0" -> 0 [] d = "1" -> 1

\* int(s) for a string of decimal digits
RECURSIVE int(_)
int(ds) ==
    IF ds = <<>> THEN 0
    ELSE int(SubSeq(ds, 1, Len(ds) - 1)) * 10 + DigitVal(ds[Len(ds)])

\* \d+ is greedy: index of the last token of the digit run starting at j
\* (j - 1 when there is no digit at j)
RECURSIVE DigitRun(_, _)
DigitRun(q, j) ==
    IF j <= Len(q) /\ q[j] \in Digits THEN DigitRun(q, j + 1) ELSE j - 1

\* after the greedy run the engine backtracks, giving digits back one at a
\* time until " incidents" follows; 0 when no split of the run works
RECURSIVE Backtrack(_, _, _)
Backtrack(q, i, e) ==
    IF e < i + 1 THEN 0
    ELSE IF e + 1 <= Len(q) /\ Lower(q[e + 1]) = " incidents" THEN e
    ELSE Backtrack(q, i, e - 1)

\* re_search returning the last match instead of the first (variant for C7)
re_search_LastMatch(q, i) ==
    LET starts == {k \in i..Len(q) :
                     /\ Lower(q[k]) = "last "
                     /\ Backtrack(q, k, DigitRun(q, k + 1)) # 0}
        last   == CHOOSE k \in starts : \A j \in starts : j <= k
    IN  IF starts = {} THEN <<>>
        ELSE SubSeq(q, last + 1, Backtrack(q, last, DigitRun(q, last + 1)))

\* re.search tries the pattern at each start position from the left and
\* returns group(1) of the first match; <<>> stands for None
RECURSIVE re_search(_, _)
re_search(q, i) ==
    IF i > Len(q) THEN <<>>
    ELSE IF Lower(q[i]) = "last " /\ Backtrack(q, i, DigitRun(q, i + 1)) # 0
         THEN SubSeq(q, i + 1, Backtrack(q, i, DigitRun(q, i + 1)))
    ELSE re_search(q, i + 1)

DefaultLimit == 5

determine_incident_limit(q) ==
    IF re_search(q, 1) # <<>> THEN int(re_search(q, 1)) ELSE DefaultLimit

----------------------------------------------------------------------------
(* format_incidents_for_prompt *)

\* the (label, DynamoDB attribute) pairs in the order the dict is built
FieldMap == <<
    [label |-> "Incident ID",      attr |-> "id"],
    [label |-> "Title",            attr |-> "title"],
    [label |-> "Status",           attr |-> "status"],
    [label |-> "Priority",         attr |-> "priority"],
    [label |-> "Urgency",          attr |-> "urgency"],
    [label |-> "Category",         attr |-> "category"],
    [label |-> "Affected Service", attr |-> "affectedService"],
    [label |-> "Root Cause",       attr |-> "rootCauseAnalysis"] >>

\* format_incident reading "rootCause" for the last label (variant for C8)
format_incident_WrongAttr(incident) ==
    [n \in 1..Len(FieldMap) |->
        [label |-> FieldMap[n].label,
         value |-> DictGet(DictGet(incident,
                                   IF n = 8 THEN "rootCause" ELSE FieldMap[n].attr,
                                   EmptyDict),
                           "S", "N/A")]]

\* one formatted incident: an insertion-ordered dict, as a sequence of items
format_incident(incident) ==
    [n \in 1..Len(FieldMap) |->
        [label |-> FieldMap[n].label,
         value |-> DictGet(DictGet(incident, FieldMap[n].attr, EmptyDict),
                           "S", "N/A")]]

\* json.dumps of the list keeps the order of the list and of each dict
format_incidents_for_prompt(incs) ==
    [n \in 1..Len(incs) |-> format_incident(incs[n])]

generate_user_query_prompt(incs, question) ==
    [preamble  |-> "You are an AI assistant helping with incident management. Below are the most recent incidents:",
     incidents |-> format_incidents_for_prompt(incs),
     question  |-> <<"User Question: ">> \o question,
     closing   |-> "Please provide a clear, professional response."]

----------------------------------------------------------------------------
(* Incident records: DynamoDB items, attribute name -> {type tag: value} *)

IncidentAttrs == {FieldMap[n].attr : n \in 1..Len(FieldMap)}

\* attribute names a stored item may carry: the eight read by the formatter
\* and one the formatter never reads
ItemKeys == IncidentAttrs \cup {"createdAt"}

\* attribute values: two string values and one number-typed value
AttrValues == {[S |-> "a"], [S |-> "b"], [N |-> "7"]}

FullRecord == [k \in ItemKeys |-> [S |-> "a"]]

\* the records given to the formatter: the empty item, every item with one
\* attribute, the full item and every item that differs from it in one
\* attribute (removed, or holding another value)
IncidentRecords ==
    {EmptyDict, FullRecord}
    \cup {[j \in {k} |-> v] : k \in ItemKeys, v \in AttrValues}
    \cup {[j \in ItemKeys \ {k} |-> FullRecord[j]] : k \in ItemKeys}
    \cup {[FullRecord EXCEPT ![k] = v] : k \in ItemKeys, v \in AttrValues}

\* the records the table "dev-incidents" may hold during a request
StoredIncidents ==
    {FullRecord, [j \in {"id", "status"} |-> IF j = "id" THEN [S |-> "b"] ELSE [N |-> "7"]]}

----------------------------------------------------------------------------
(* The two collaborators: what a call to each may do *)

\* messages of the exceptions dynamodb_client.scan may raise
StoreErrors == {"ResourceNotFoundException", "EndpointConnectionError"}

\* outcomes of dynamodb_client.scan(TableName, Limit): an exception, or a
\* response dict, with or without "Items", holding at most Limit items
ScanOutcomes(lim) ==
    {[raises |-> TRUE, msg |-> m] : m \in StoreErrors}
    \cup {[raises |-> FALSE, response |-> [Items |-> xs]] :
            xs \in SeqsUpTo(StoredIncidents, Min(lim, MaxItems))}
    \cup {[raises |-> FALSE, response |-> EmptyDict]}

\* get_all_incidents answering a failed scan with no records (variant for C2)
get_all_incidents_EmptyOnError(o) ==
    IF o.raises
    THEN PyList(<<>>)
    ELSE PyList(DictGet(o.response, "Items", <<>>))

\* get_all_incidents(table_name, limit) for one outcome of the scan
get_all_incidents(o) ==
    IF o.raises
    THEN PyDict([error |-> <<"Error fetching incidents: ", o.msg>>])
    ELSE PyList(DictGet(o.response, "Items", <<>>))

\* messages of the exceptions bedrock_client.invoke_model may raise
ModelErrors == {"ThrottlingException"}

ModelTexts == {<<"answer">>, <<>>}

\* decoded reply bodies: no "content", an empty content list, a first
\* segment without "text", one or two text segments
ModelReplies ==
    {EmptyDict, [content |-> <<>>], [content |-> <<EmptyDict>>]}
    \cup {[content |-> <<[text |-> t]>>] : t \in ModelTexts}
    \cup {[content |-> <<[text |-> <<"answer">>], [text |-> <<"more">>]>>]}

InvokeOutcomes ==
    {[raises |-> TRUE, msg |-> m] : m \in ModelErrors}
    \cup {[raises |-> FALSE, reply |-> r] : r \in ModelReplies}

MaxTokens == 500

\* the payload invoke_bedrock sends
BedrockPayload(p) ==
    [anthropic_version |-> "bedrock-2023-05-31",
     messages    |-> <<[role |-> "user",
                        content |-> <<[type |-> "text", text |-> p]>>]>>,
     max_tokens  |-> MaxTokens,
     temperature |-> "0.7"]

\* the exception, if any, that the body of invoke_bedrock raises for an
\* outcome of invoke_model: the client's own, or IndexError from [0]
InvokeException(o) ==
    IF o.raises THEN <<o.msg>>
    ELSE IF Len(DictGet(o.reply, "content", <<EmptyDict>>)) = 0
         THEN <<"list index out of range">>
    ELSE <<>>

\* invoke_bedrock answering an exception with empty text (variant for C1)
invoke_bedrock_SwallowsError(o) ==
    IF InvokeException(o) # <<>>
    THEN PyStr(<<>>)
    ELSE PyStr(DictGet(DictGet(o.reply, "content", <<EmptyDict>>)[1],
                       "text", <<>>))

\* invoke_bedrock(prompt) for one outcome of invoke_model
invoke_bedrock(o) ==
    IF InvokeException(o) # <<>>
    THEN PyDict([error |-> <<"Error invoking Bedrock: ">> \o InvokeException(o)])
    ELSE PyStr(DictGet(DictGet(o.reply, "content", <<EmptyDict>>)[1],
                       "text", <<>>))

----------------------------------------------------------------------------
(* Events *)

\* JSON values the "user_question" field of the body may hold
QuestionValues ==
    {PyStr(q) : q \in SeqsUpTo(Tokens, MaxQLen)}
    \cup {PyNone, PyInt(0), PyInt(42)}

\* event["body"] raises KeyError, json.loads raises TypeError or
\* JSONDecodeError, or the body decodes to a JSON value
Events ==
    {[kind |-> "no_body"], [kind |-> "body_not_str"], [kind |-> "bad_json"],
     [kind |-> "json", body |-> PyList(<<>>)],
     [kind |-> "json", body |-> PyNone],
     [kind |-> "json", body |-> PyDict(EmptyDict)]}
    \cup {[kind |-> "json", body |-> PyDict([user_question |-> v])] :
            v \in QuestionValues}

\* str(e) of the exception the first statement of the handler raises
ParseError(ev) ==
    CASE ev.kind = "no_body"      -> <<"'body'">>
      [] ev.kind = "body_not_str" -> <<"the JSON object must be str, bytes or bytearray, not dict">>
      [] ev.kind = "bad_json"     -> <<"Expecting value: line 1 column 1 (char 0)">>
      [] ev.body.type # "dict"    -> <<"'", ev.body.type, "' object has no attribute 'get'">>
      [] OTHER                    -> <<>>

NoValue == [type |-> "unset"]
NoException == [where |-> "nowhere", msg |-> <<>>]

Response(status, body) == [statusCode |-> status, body |-> body]

----------------------------------------------------------------------------
(* lambda_handler, one action per step *)

\* the catch-all answering with a fixed message (variant for C5)
Catch_GenericMessage(msg) ==
    /\ pc' = "Done"
    /\ result' = Response(500, [error |-> <<"Internal server error">>])
    /\ raised' = [where |-> "handler", msg |-> msg]

\* `except Exception as e` of lambda_handler
Catch(msg) ==
    /\ pc' = "Done"
    /\ result' = Response(500, [error |-> msg])
    /\ raised' = [where |-> "handler", msg |-> msg]

\* body = json.loads(event["body"]); user_question = body.get(..., "")
ParseBody ==
    /\ pc = "ParseBody"
    /\ IF ParseError(event) # <<>>
       THEN /\ Catch(ParseError(event))
            /\ UNCHANGED user_question
       ELSE /\ user_question' = DictGet(event.body.d, "user_question", PyStr(<<>>))
            /\ pc' = "ValidateQuestion"
            /\ UNCHANGED <<result, raised>>
    /\ UNCHANGED <<event, limit, scanRequest, incidents, prompt, payload,
                   response_text, formatted, storeCalls, modelCalls,
                   scanOutcome, invokeOutcome>>

\* if not user_question: return 400
ValidateQuestion ==
    /\ pc = "ValidateQuestion"
    /\ IF ~Truthy(user_question)
       THEN /\ pc' = "Done"
            /\ result' = Response(400, [error |-> <<"Please provide a user question">>])
       ELSE /\ pc' = "DetermineLimit"
            /\ UNCHANGED result
    /\ UNCHANGED <<event, user_question, limit, scanRequest, incidents, prompt,
                   payload, response_text, formatted, storeCalls, modelCalls,
                   scanOutcome, invokeOutcome, raised>>

\* limit = determine_incident_limit(user_question); re.search raises
\* TypeError on anything that is not a string
DetermineLimit ==
    /\ pc = "DetermineLimit"
    /\ IF user_question.type # "str"
       THEN /\ Catch(<<"expected string or bytes-like object">>)
            /\ UNCHANGED limit
       ELSE /\ limit' = determine_incident_limit(user_question.s)
            /\ pc' = "FetchIncidents"
            /\ UNCHANGED <<result, raised>>
    /\ UNCHANGED <<event, user_question, scanRequest, incidents, prompt,
                   payload, response_text, formatted, storeCalls, modelCalls,
                   scanOutcome, invokeOutcome>>

\* the fetch step calling the store again after a failure (variant for C9)
FetchIncidents_Retry ==
    /\ pc = "FetchIncidents"
    /\ \E o \in ScanOutcomes(limit) :
          /\ scanOutcome' = o
          /\ incidents' = get_all_incidents(o)
          /\ raised' = IF o.raises THEN [where |-> "store", msg |-> <<o.msg>>]
                       ELSE raised
          /\ pc' = IF o.raises /\ storeCalls < 1 THEN "FetchIncidents"
                   ELSE "CheckFetchResult"
    /\ scanRequest' = [TableName |-> "dev-incidents", Limit |-> limit]
    /\ storeCalls' = storeCalls + 1
    /\ UNCHANGED <<event, user_question, limit, prompt, payload, response_text,
                   result, formatted, modelCalls, invokeOutcome>>

\* incidents = get_all_incidents("dev-incidents", limit)
FetchIncidents ==
    /\ pc = "FetchIncidents"
    /\ \E o \in ScanOutcomes(limit) :
          /\ scanOutcome' = o
          /\ incidents' = get_all_incidents(o)
          /\ raised' = IF o.raises THEN [where |-> "store", msg |-> <<o.msg>>]
                       ELSE raised
    /\ scanRequest' = [TableName |-> "dev-incidents", Limit |-> limit]
    /\ storeCalls' = storeCalls + 1
    /\ pc' = "CheckFetchResult"
    /\ UNCHANGED <<event, user_question, limit, prompt, payload, response_text,
                   result, formatted, modelCalls, invokeOutcome>>

\* the two early returns after the fetch
CheckFetchResult ==
    /\ pc = "CheckFetchResult"
    /\ IF incidents.type = "dict" /\ "error" \in DOMAIN incidents.d
       THEN /\ pc' = "Done"
            /\ result' = Response(500, incidents.d)
       ELSE IF ~Truthy(incidents)
       THEN /\ pc' = "Done"
            /\ result' = Response(404, [error |-> <<"No incidents found">>])
       ELSE /\ pc' = "FormatAndCompose"
            /\ UNCHANGED result
    /\ UNCHANGED <<event, user_question, limit, scanRequest, incidents, prompt,
                   payload, response_text, formatted, storeCalls, modelCalls,
                   scanOutcome, invokeOutcome, raised>>

\* prompt = generate_user_query_prompt(incidents, user_question)
FormatAndCompose ==
    /\ pc = "FormatAndCompose"
    /\ prompt' = generate_user_query_prompt(incidents.items, user_question.s)
    /\ pc' = "InvokeModel"
    /\ UNCHANGED <<event, user_question, limit, scanRequest, incidents,
                   payload, response_text, result, formatted, storeCalls,
                   modelCalls, scanOutcome, invokeOutcome, raised>>

\* response_text = invoke_bedrock(prompt)
InvokeModel ==
    /\ pc = "InvokeModel"
    /\ payload' = BedrockPayload(prompt)
    /\ modelCalls' = modelCalls + 1
    /\ \E o \in InvokeOutcomes :
          /\ invokeOutcome' = o
          /\ response_text' = invoke_bedrock(o)
          /\ raised' = IF InvokeException(o) # <<>>
                       THEN [where |-> "model", msg |-> InvokeException(o)]
                       ELSE raised
    /\ pc' = "Respond"
    /\ UNCHANGED <<event, user_question, limit, scanRequest, incidents, prompt,
                   result, formatted, storeCalls, scanOutcome>>

\* the last step returning a model failure object as the body itself
\* (variant for C6)
Respond_UnwrapsFailure ==
    /\ pc = "Respond"
    /\ result' = Response(200, IF response_text.type = "dict" THEN response_text.d
                               ELSE [response |-> response_text])
    /\ pc' = "Done"
    /\ UNCHANGED <<event, user_question, limit, scanRequest, incidents, prompt,
                   payload, response_text, formatted, storeCalls, modelCalls,
                   scanOutcome, invokeOutcome, raised>>

\* return {"statusCode": 200, "body": json.dumps({"response": response_text})}
Respond ==
    /\ pc = "Respond"
    /\ result' = Response(200, [response |-> response_text])
    /\ pc' = "Done"
    /\ UNCHANGED <<event, user_question, limit, scanRequest, incidents, prompt,
                   payload, response_text, formatted, storeCalls, modelCalls,
                   scanOutcome, invokeOutcome, raised>>

Init ==
    /\ pc = "ParseBody"
    /\ event \in Events
    /\ user_question = NoValue
    /\ limit = 0
    /\ scanRequest = NoValue
    /\ incidents = NoValue
    /\ prompt = NoValue
    /\ payload = NoValue
    /\ response_text = NoValue
    /\ result = NoValue
    /\ formatted = <<>>
    /\ storeCalls = 0
    /\ modelCalls = 0
    /\ scanOutcome = NoValue
    /\ invokeOutcome = NoValue
    /\ raised = NoException

Next ==
    \/ ParseBody
    \/ ValidateQuestion
    \/ DetermineLimit
    \/ FetchIncidents
    \/ CheckFetchResult
    \/ FormatAndCompose
    \/ InvokeModel
    \/ Respond

Spec == Init /\ [][Next]_vars

----------------------------------------------------------------------------
(* determine_incident_limit called on its own *)

InitLimit ==
    /\ pc = "limit_call"
    /\ event = NoValue
    /\ user_question \in {PyStr(q) : q \in SeqsUpTo(Tokens, MaxLimLen)}
    /\ limit = 0
    /\ scanRequest = NoValue
    /\ incidents = NoValue
    /\ prompt = NoValue
    /\ payload = NoValue
    /\ response_text = NoValue
    /\ result = NoValue
    /\ formatted = <<>>
    /\ storeCalls = 0
    /\ modelCalls = 0
    /\ scanOutcome = NoValue
    /\ invokeOutcome = NoValue
    /\ raised = NoException

LimitCall ==
    /\ pc = "limit_call"
    /\ limit' = determine_incident_limit(user_question.s)
    /\ pc' = "limit_ret"
    /\ UNCHANGED <<event, user_question, scanRequest, incidents, prompt,
                   payload, response_text, result, formatted, storeCalls,
                   modelCalls, scanOutcome, invokeOutcome, raised>>

SpecLimit == InitLimit /\ [][LimitCall]_vars

----------------------------------------------------------------------------
(* format_incidents_for_prompt called on its own *)

InitFormat ==
    /\ pc = "format_call"
    /\ event = NoValue
    /\ user_question = NoValue
    /\ limit = 0
    /\ scanRequest = NoValue
    /\ incidents \in {PyList(xs) : xs \in SeqsUpTo(IncidentRecords, MaxRecs)}
    /\ prompt = NoValue
    /\ payload = NoValue
    /\ response_text = NoValue
    /\ result = NoValue
    /\ formatted = <<>>
    /\ storeCalls = 0
    /\ modelCalls = 0
    /\ scanOutcome = NoValue
    /\ invokeOutcome = NoValue
    /\ raised = NoException

FormatCall ==
    /\ pc = "format_call"
    /\ formatted' = format_incidents_for_prompt(incidents.items)
    /\ pc' = "format_ret"
    /\ UNCHANGED <<event, user_question, limit, scanRequest, incidents, prompt,
                   payload, response_text, result, storeCalls, modelCalls,
                   scanOutcome, invokeOutcome, raised>>

SpecFormat == InitFormat /\ [][FormatCall]_vars

----------------------------------------------------------------------------
(* Properties of lambda_handler *)

Done == pc = "Done"

\* the records a scan outcome delivers (none when "Items" is missing)
ScanItems(o) == IF "Items" \in DOMAIN o.response THEN o.response.Items ELSE <<>>

StoreFailed    == storeCalls >= 1 /\ scanOutcome.raises
StoreSucceeded == storeCalls >= 1 /\ ~scanOutcome.raises

\* text t occurs in the message msg
Contains(msg, t) == \E i \in 1..Len(msg) : msg[i] = t

\* the first text segment of a model reply, when it has one
HasFirstText(o) ==
    /\ ~o.raises
    /\ "content" \in DOMAIN o.reply
    /\ Len(o.reply.content) >= 1
    /\ "text" \in DOMAIN o.reply.content[1]

\* C1: when the fetch succeeds with at least one record the request ends
\* with status 200 and a body {"response": R}; R is the model's text when
\* the model answers with text, and the failure object {"error": ...}
\* naming the model's exception when the model call fails.
C1_ModelOutcomeIs200 ==
    (Done /\ StoreSucceeded /\ Len(ScanItems(scanOutcome)) >= 1) =>
        /\ modelCalls = 1
        /\ result.statusCode = 200
        /\ DOMAIN result.body = {"response"}
        /\ invokeOutcome.raises =>
              /\ result.body.response.type = "dict"
              /\ DOMAIN result.body.response.d = {"error"}
              /\ Contains(result.body.response.d.error, invokeOutcome.msg)
        /\ HasFirstText(invokeOutcome) =>
              result.body.response = PyStr(invokeOutcome.reply.content[1].text)

C1_Witness ==
    /\ Done
    /\ StoreSucceeded
    /\ modelCalls = 1
    /\ invokeOutcome.raises
    /\ result.statusCode = 200
    /\ result.body.response.type = "dict"

\* C2: when the scan fails the request ends with status 500 and a body
\* whose "error" contains the store's message; the model is never invoked.
C2_StoreFailureIs500 ==
    StoreFailed =>
        /\ modelCalls = 0
        /\ Done =>
              /\ result.statusCode = 500
              /\ DOMAIN result.body = {"error"}
              /\ Contains(result.body.error, scanOutcome.msg)

C2_Witness ==
    /\ Done
    /\ StoreFailed
    /\ result.statusCode = 500
    /\ user_question.type = "str"
    /\ user_question.s # <<>>

\* C3: a successful scan with zero records ends with status 404 and body
\* {"error": "No incidents found"}; a failed scan never ends with 404.
C3_EmptyFetchIs404 ==
    Done =>
        /\ (StoreSucceeded /\ Len(ScanItems(scanOutcome)) = 0) =>
              result = [statusCode |-> 404,
                        body |-> [error |-> <<"No incidents found">>]]
        /\ StoreFailed => result.statusCode # 404
        /\ result.statusCode = 404 =>
              StoreSucceeded /\ Len(ScanItems(scanOutcome)) = 0

C3_Witness ==
    /\ Done
    /\ StoreSucceeded
    /\ Len(ScanItems(scanOutcome)) = 0
    /\ result.statusCode = 404

\* the event body is a JSON object without "user_question" or with ""
QuestionMissingOrEmpty ==
    /\ event.kind = "json"
    /\ event.body.type = "dict"
    /\ \/ "user_question" \notin DOMAIN event.body.d
       \/ event.body.d.user_question = [type |-> "str", s |-> <<>>]

\* C4: a JSON object body whose user_question is "" or missing ends with
\* status 400 and body {"error": "Please provide a user question"}.
C4_NoQuestionIs400 ==
    (Done /\ QuestionMissingOrEmpty) =>
        result = [statusCode |-> 400,
                  body |-> [error |-> <<"Please provide a user question">>]]

C4_Witness ==
    /\ Done
    /\ QuestionMissingOrEmpty
    /\ "user_question" \in DOMAIN event.body.d
    /\ result.statusCode = 400

C4_WitnessMissing ==
    /\ Done
    /\ QuestionMissingOrEmpty
    /\ "user_question" \notin DOMAIN event.body.d
    /\ result.statusCode = 400

\* C5 as stated: every exception raised at any step of the request ends it
\* with status 500 and an "error" body carrying the exception's message.
C5_EveryExceptionIs500 ==
    (Done /\ raised.where # "nowhere") =>
        /\ result.statusCode = 500
        /\ DOMAIN result.body = {"error"}
        /\ \E i \in 0..Len(result.body.error) :
              SubSeq(result.body.error, i + 1, Len(result.body.error)) = raised.msg

\* C5 as amended: an exception raised by the handler's own steps ends the
\* request with 500 and {"error": message}; one raised by the scan ends it
\* with 500 and the message prefixed by "Error fetching incidents: "; one
\* raised inside invoke_bedrock ends it with 200 and the failure object
\* under "response".  lambda_handler always returns a response.
C5_ExceptionsByOrigin ==
    /\ raised.where # "nowhere" => pc \in {"Done", "CheckFetchResult", "Respond"}
    /\ Done =>
        /\ DOMAIN result = {"statusCode", "body"}
        /\ raised.where = "handler" =>
              result = [statusCode |-> 500, body |-> [error |-> raised.msg]]
        /\ raised.where = "store" =>
              result = [statusCode |-> 500,
                        body |-> [error |-> <<"Error fetching incidents: ">> \o raised.msg]]
        /\ raised.where = "model" =>
              result = [statusCode |-> 200,
                        body |-> [response |->
                            [type |-> "dict",
                             d |-> [error |-> <<"Error invoking Bedrock: ">> \o raised.msg]]]]

C5_Witness ==
    /\ Done
    /\ raised.where = "handler"
    /\ event.kind = "json"
    /\ event.body.type # "dict"
    /\ result.statusCode = 500

\* C6: a finished request has status 200, 400, 404 or 500; its body has a
\* "response" key exactly when the status is 200 and an "error" key
\* exactly when the status is 400, 404 or 500.
C6_StatusAndBodyShape ==
    Done =>
        /\ result.statusCode \in {200, 400, 404, 500}
        /\ ("response" \in DOMAIN result.body) <=> (result.statusCode = 200)
        /\ ("error" \in DOMAIN result.body) <=> (result.statusCode \in {400, 404, 500})

C6_Witness ==
    /\ Done
    /\ result.statusCode = 200
    /\ raised.where = "model"
    /\ "error" \notin DOMAIN result.body

\* C9: the store is called at most once and the model at most once; the
\* model is called only after the scan returned at least one record; a
\* request that ends with 400 called neither.
C9_CallsSequentialNoRetry ==
    /\ storeCalls <= 1
    /\ modelCalls <= 1
    /\ modelCalls >= 1 =>
          /\ StoreSucceeded
          /\ Len(ScanItems(scanOutcome)) >= 1
          /\ pc \in {"Respond", "Done"}
    /\ (storeCalls >= 1 /\ modelCalls = 0) =>
          pc \in {"CheckFetchResult", "FormatAndCompose", "InvokeModel", "Done"}
    /\ (Done /\ result.statusCode = 400) => (storeCalls = 0 /\ modelCalls = 0)

C9_Witness ==
    /\ Done
    /\ storeCalls = 1
    /\ modelCalls = 1
    /\ invokeOutcome.raises

\* C10: every limit passed to get_all_incidents is a positive integer.
C10_LimitPositive ==
    storeCalls >= 1 => scanRequest.Limit >= 1

----------------------------------------------------------------------------
(* Properties of determine_incident_limit *)

\* tokens i..e+1 of q spell "last N incidents" in some mix of cases, with
\* the digits of N at i+1..e
IsOccurrence(q, i, e) ==
    /\ 1 <= i /\ i < e /\ e < Len(q)
    /\ q[i] \in {"last ", "LAST "}
    /\ \A k \in (i + 1)..e : q[k] \in {"0", "1"}
    /\ q[e + 1] \in {" incidents", " INCIDENTS"}

Occurrences(q) ==
    {o \in (1..Len(q)) \X (1..Len(q)) : IsOccurrence(q, o[1], o[2])}

\* the number written by the digits at k..e, read from the left
RECURSIVE Number(_, _, _, _)
Number(q, k, e, acc) ==
    IF k > e THEN acc
    ELSE Number(q, k + 1, e, acc * 10 + (IF q[k] = "1" THEN 1 ELSE 0))

OccurrenceNumber(q, o) == Number(q, o[1] + 1, o[2], 0)

\* C7: the limit is 5 when the question has no occurrence of
\* "last N incidents", and otherwise the N of its first occurrence.
C7_LimitOfFirstOccurrence ==
    pc = "limit_ret" =>
        LET q == user_question.s
        IN  IF Occurrences(q) = {}
            THEN limit = 5
            ELSE \E o \in Occurrences(q) :
                    /\ \A p \in Occurrences(q) : o[1] <= p[1]
                    /\ limit = OccurrenceNumber(q, o)

C7_Witness ==
    /\ pc = "limit_ret"
    /\ \E o, p \in Occurrences(user_question.s) :
          /\ o[1] < p[1]
          /\ OccurrenceNumber(user_question.s, o) = 0
          /\ OccurrenceNumber(user_question.s, p) = 1
          /\ limit = 0

----------------------------------------------------------------------------
(* Properties of format_incidents_for_prompt *)

C8_Labels ==
    <<"Incident ID", "Title", "Status", "Priority", "Urgency", "Category",
      "Affected Service", "Root Cause">>

C8_Attrs ==
    <<"id", "title", "status", "priority", "urgency", "category",
      "affectedService", "rootCauseAnalysis">>

\* the string value record r holds for attribute a, "N/A" when it has none
StringValueOrNA(r, a) ==
    IF a \in DOMAIN r /\ "S" \in DOMAIN r[a] THEN r[a].S ELSE "N/A"

\* C8: the output has one entry per record, in input order; each entry has
\* exactly the eight labels in the fixed order, each with the record's
\* string value for that field or "N/A"; nothing else is in an entry.
C8_EightLabelsPerRecord ==
    pc = "format_ret" =>
        /\ Len(formatted) = Len(incidents.items)
        /\ \A n \in 1..Len(formatted) :
              /\ Len(formatted[n]) = 8
              /\ \A j \in 1..8 :
                    /\ DOMAIN formatted[n][j] = {"label", "value"}
                    /\ formatted[n][j].label = C8_Labels[j]
                    /\ formatted[n][j].value =
                          StringValueOrNA(incidents.items[n], C8_Attrs[j])

C8_Witness ==
    /\ pc = "format_ret"
    /\ Len(formatted) = 2
    /\ incidents.items[1] = [id |-> [S |-> "b"]]
    /\ DOMAIN incidents.items[2] = ItemKeys
    /\ incidents.items[2]["createdAt"] = [S |-> "b"]
    /\ formatted[1][1].value = "b"
    /\ formatted[1][8].value = "N/A"
    /\ \A j \in 1..8 : formatted[2][j].value = "a"

====
